---------------------------- MODULE Spec2Model ----------------------------
(***************************************************************************)
(* A model of @thingts/execution: the throttle / debounce timing windows   *)
(* (BaseTimingWindow, ThrottleWindow, DebounceWindow), the routing of the  *)
(* wrappers through their windowMap, and the serial queue of serialize().  *)
(*                                                                         *)
(* One behaviour of the model is the life of ONE factory: throttle(delay,  *)
(* options), debounce(delay, opts) or serialize(opts), applied to the      *)
(* functions in Wrappers and called with the receivers in Receivers.       *)
(***************************************************************************)
EXTENDS Integers, Sequences, FiniteSets, TLC

\* ------------------------------------------------------------------ bounds
MaxTime  == 4      \* the clock runs from 0 to MaxTime milliseconds
MaxCalls == 3      \* number of calls made to the wrappers
MaxDelay == 2      \* delays are drawn from 0..MaxDelay

\* ------------------------------------------------------------------ inputs
Wrappers  == {"f", "g"}         \* the functions the factory is applied to
NoThis    == "undefined"        \* `this` of a plain function call
Receivers == {NoThis, "a", "b"} \* receivers the wrappers are called with
Delays    == 0 .. MaxDelay
NoGroup   == "nogroup"          \* opts.group === undefined
Groups    == {NoGroup, "A", "B"}
Behaviours == {"throws", "awaits"}   \* what the thunk does when invoked:
                                     \* throw synchronously, or return a value
                                     \* or promise that run() awaits
Outcomes  == {"resolved", "rejected"}

VARIABLES
  kind,        \* which factory this is: "throttle", "debounce" or "serialize"
  sequence,    \* options.sequence
  edge,        \* opts.edge (debounce)
  delay,       \* the DelaySpec, as the delay it resolves to for each receiver
  sopts,       \* serialize: the SerializeOptions each wrapper was made with
  now,         \* the clock
  windows,     \* every window ever constructed, in construction order
  windowMap,   \* the factory's windowMap: routing key -> window (0: no entry)
  units,       \* serialize: every unit ever enqueued, in enqueue order
  pending,     \* serialize: `pending` of each queue, as the unit it derives from
  started,     \* serialize: the units in the order their fn was invoked
  calls        \* the calls made so far, with the promise each returned

vars == <<kind, sequence, edge, delay, sopts, now, windows, windowMap,
          units, pending, started, calls>>

\* ------------------------------------------------------------ routing keys
\* a key that ignores the receiver
KeyPerWrapper(wr, th) == <<"fallback", wr>>

\* const key = this ?? fallback       (fallback = Symbol(), one per wrapper)
Key(wr, th) == IF th = NoThis THEN <<"fallback", wr>> ELSE <<"this", th>>

Keys == {Key(wr, th) : wr \in Wrappers, th \in Receivers}

\* resolveDelay(this, delay)
resolveDelay(th) == delay[th]

\* ---------------------------------------------------------------- promises
PendingP     == [state |-> "pending", val |-> 0]
Settled(k, v) == [state |-> k, val |-> v]

\* Promise.withResolvers(): one new promise per window
Deferred(w) == <<"deferred", w>>
\* the promise an `async function` wrapper returns: one new promise per call
AsyncPromise(c) == <<"async", c>>

\* ----------------------------------------------------- BaseTimingWindow
NoTimer == -1
NoFunc  == 0

\* field initialisers and constructor of BaseTimingWindow, plus #func of
\* DebounceWindow; timers are the host's timers of this window that were
\* armed and neither fired nor cleared, each known by the time it is due,
\* and arms counts the host timers the window has armed;
\* running / invocations / invokedAt / closes / thunk record what the window
\* did
NewWindow(key, d) ==
  [ key |-> key, delay |-> d,
    timedOut |-> FALSE, settled |-> FALSE, fired |-> FALSE,
    timeoutId |-> NoTimer, timers |-> {}, arms |-> 0,
    func |-> NoFunc, deferred |-> PendingP,
    running |-> NoFunc, invocations |-> 0, invokedAt |-> -1,
    closes |-> 0, thunk |-> PendingP ]

\* A state of the heap the window code works on: S.wins and S.map
Heap == [wins |-> windows, map |-> windowMap]

\* clearTimeout(): the host drops the timer #timeoutId names
clearTimeout(S, w) ==
  IF S.wins[w].timeoutId # NoTimer
    THEN [S EXCEPT !.wins[w].timers = @ \ {S.wins[w].timeoutId},
                   !.wins[w].timeoutId = NoTimer]
    ELSE S

\* a setTimeout() that treats delay 0 as already elapsed
setTimeoutElapsed(S, w) ==
  IF S.wins[w].delay = 0
    THEN [S EXCEPT !.wins[w].timedOut = TRUE]
    ELSE [S EXCEPT !.wins[w].timeoutId = now + S.wins[w].delay,
                   !.wins[w].timers = {now + S.wins[w].delay},
                   !.wins[w].arms = @ + 1]

\* a setTimeout() that arms without clearing the timer armed before
setTimeoutKeep(S, w) ==
  [S EXCEPT !.wins[w].timeoutId = now + S.wins[w].delay,
            !.wins[w].timers = @ \cup {now + S.wins[w].delay},
            !.wins[w].arms = @ + 1]

\* setTimeout(): clear, then arm a timer `delay` from now
setTimeout(S, w) ==
  LET S1 == clearTimeout(S, w)
  IN  [S1 EXCEPT !.wins[w].timeoutId = now + S1.wins[w].delay,
                 !.wins[w].timers = @ \cup {now + S1.wins[w].delay},
                 !.wins[w].arms = @ + 1]

\* an onClose that leaves the entry in the map
onCloseKeep(S, w) == [S EXCEPT !.wins[w].closes = @ + 1]

\* onClose: () => windowMap.delete(key)
onClose(S, w) ==
  [S EXCEPT !.map[S.wins[w].key] = 0, !.wins[w].closes = @ + 1]

close(S, w) == onClose(clearTimeout(S, w), w)

\* the condition of checkClose() without its settled part
ClosePermittedOnTimeout(win) == win.timedOut

\* a checkClose() that looks at settled only
ClosePermittedOnSettle(win) == win.settled

\* the condition of checkClose() without its 'concurrent' part
ClosePermittedOnBoth(win) == win.timedOut /\ win.settled

\* the condition of checkClose()
ClosePermitted(win) ==
  win.timedOut /\ (sequence = "concurrent" \/ win.settled)

checkClose(S, w) ==
  IF ClosePermitted(S.wins[w]) THEN close(S, w) ELSE S

\* an onSettled() that never arms the timer
onSettledIdle(S, w) == S

\* ThrottleWindow.onSettled / DebounceWindow.onSettled
onSettled(S, w) ==
  IF kind = "throttle" /\ sequence = "gap" THEN setTimeout(S, w) ELSE S

\* a deferred whose resolve and reject do nothing
settleDeferredNever(S, w, o) == S

\* #deferred.resolve(v) / #deferred.reject(err): a promise settles once
settleDeferred(S, w, o) ==
  IF S.wins[w].deferred.state = "pending"
    THEN [S EXCEPT !.wins[w].deferred = o]
    ELSE S

\* run() resolving the deferred with whatever the thunk produced
runDeliverAsValue(S, w, o) == settleDeferred(S, w, Settled("resolved", o.val))

\* the try / catch of run(): the thunk's outcome goes to the deferred
runDeliver(S, w, o) == settleDeferred(S, w, o)

\* the finally block of run()
runFinally(S, w) ==
  checkClose(onSettled([S EXCEPT !.wins[w].settled = TRUE], w), w)

\* a run() whose catch block rejects and leaves the method
runSettleOnSuccess(S, w, f, k) ==
  LET o  == Settled(k, f)
      S1 == [S EXCEPT !.wins[w].thunk = o, !.wins[w].running = NoFunc]
  IN  IF k = "rejected" THEN runDeliver(S1, w, o)
      ELSE runFinally(runDeliver(S1, w, o), w)

\* run(), from the thunk's outcome on: the thunk of call f ended with k
runSettle(S, w, f, k) ==
  LET o  == Settled(k, f)
      S1 == [S EXCEPT !.wins[w].thunk = o, !.wins[w].running = NoFunc]
  IN  runFinally(runDeliver(S1, w, o), w)

\* run() without its guard
runGuardOff(win) == FALSE

\* the `if (this.fired) { return }` guard of run()
runGuard(win) == win.fired

\* run(func): func is the thunk of call f, which behaves as b
run(S, w, f, b) ==
  IF runGuard(S.wins[w]) THEN S
  ELSE LET S1 == [S EXCEPT !.wins[w].fired = TRUE,
                           !.wins[w].invocations = @ + 1,
                           !.wins[w].invokedAt = now]
       IN  IF b = "throws"
             THEN runSettle(S1, w, f, "rejected")
             ELSE [S1 EXCEPT !.wins[w].running = f]

\* an onTimeout() that does nothing for either edge
onTimeoutIdle(S, w, b) == S

\* ThrottleWindow.onTimeout / DebounceWindow.onTimeout
onTimeout(S, w, b) ==
  IF kind = "debounce" /\ edge = "trailing"
    THEN run(S, w, S.wins[w].func, b)
    ELSE S

\* the host takes the timer of window w due at t to run its callback
fireTimer(S, w, t) == [S EXCEPT !.wins[w].timers = @ \ {t}]

\* a timer callback without its checkClose()
timeoutCallbackUnchecked(S, w, b) ==
  onTimeout([S EXCEPT !.wins[w].timeoutId = NoTimer,
                      !.wins[w].timedOut = TRUE], w, b)

\* the callback setTimeout() arms
timeoutCallback(S, w, b) ==
  LET S1 == [S EXCEPT !.wins[w].timeoutId = NoTimer,
                      !.wins[w].timedOut = TRUE]
  IN  checkClose(onTimeout(S1, w, b), w)

\* getOrInsertComputed(map, key, compute): C is the heap after compute()
\* has constructed its window as the last element of C.wins
getOrInsertComputed(S, key, C) ==
  IF S.map[key] # 0 THEN S
  ELSE [C EXCEPT !.map[key] = Len(C.wins)]

\* -------------------------------------------------------- ThrottleWindow
\* a ThrottleWindow constructor that arms the timer for every sequence
ThrottleWindowArmed(S, key, d, f, b) ==
  LET w  == Len(S.wins) + 1
      S1 == [S EXCEPT !.wins = Append(@, NewWindow(key, d))]
  IN  run(setTimeout(S1, w), w, f, b)

\* a ThrottleWindow constructor that does not run the thunk
ThrottleWindowIdle(S, key, d, f, b) ==
  LET w  == Len(S.wins) + 1
      S1 == [S EXCEPT !.wins = Append(@, NewWindow(key, d))]
  IN  IF sequence # "gap" THEN setTimeout(S1, w) ELSE S1

\* new ThrottleWindow({func, delay, sequence, onClose})
ThrottleWindow(S, key, d, f, b) ==
  LET w  == Len(S.wins) + 1
      S1 == [S EXCEPT !.wins = Append(@, NewWindow(key, d))]
      S2 == IF sequence # "gap" THEN setTimeout(S1, w) ELSE S1
  IN  run(S2, w, f, b)

\* the throttled wrapper as an `async function`
throttleReturnAsync(c, w) == AsyncPromise(c)

\* what the throttled wrapper returns: win.promise
throttleReturn(c, w) == Deferred(w)

\* -------------------------------------------------------- DebounceWindow
DebounceWindow(S, key, d) ==
  [S EXCEPT !.wins = Append(@, NewWindow(key, d))]

\* plan() arming the timer on the first call only
planNoRearm(S, w, f, b) ==
  LET firstCall == S.wins[w].func = NoFunc
      S1 == [S EXCEPT !.wins[w].func = f]
      S2 == IF firstCall THEN setTimeout(S1, w) ELSE S1
  IN  IF firstCall /\ edge = "leading" THEN run(S2, w, f, b) ELSE S2

\* plan() keeping the func of the first call
planKeepFirst(S, w, f, b) ==
  LET firstCall == S.wins[w].func = NoFunc
      S1 == IF firstCall THEN [S EXCEPT !.wins[w].func = f] ELSE S
      S2 == setTimeout(S1, w)
  IN  IF firstCall /\ edge = "leading" THEN run(S2, w, f, b) ELSE S2

\* plan() leaving every invocation to the timer
planDeferred(S, w, f, b) ==
  setTimeout([S EXCEPT !.wins[w].func = f], w)

\* DebounceWindow.plan(func)
plan(S, w, f, b) ==
  LET firstCall == S.wins[w].func = NoFunc
      S1 == [S EXCEPT !.wins[w].func = f]
      S2 == setTimeout(S1, w)
  IN  IF firstCall /\ edge = "leading" THEN run(S2, w, f, b) ELSE S2

\* what the debounced wrapper returns: it is an `async function`, so each
\* call returns a new promise, resolved with win.promise
debounceReturn(c, w) == AsyncPromise(c)

\* ------------------------------------------------------------ serialize
\* a routing that gives every wrapper without perInstance a queue of its own
QueueKeyPerWrapper(wr, th) ==
  LET o == sopts[wr]
  IN  IF o.perInstance
        THEN <<"instance", th, IF o.group = NoGroup THEN "sym_" \o wr ELSE o.group>>
        ELSE <<"own", "", wr>>

\* a routing that sends every call to one queue
QueueKeyShared(wr, th) == <<"global", "", "A">>

\* a routing that ignores perInstance
QueueKeyGlobal(wr, th) ==
  LET o == sopts[wr]
  IN  IF o.group # NoGroup THEN <<"global", "", o.group>>
      ELSE <<"own", "", wr>>

\* the queue a wrapper routes a call to
QueueKey(wr, th) ==
  LET o == sopts[wr]
  IN  IF o.perInstance
        THEN <<"instance", th, IF o.group = NoGroup THEN "sym_" \o wr ELSE o.group>>
        ELSE IF o.group # NoGroup THEN <<"global", "", o.group>>
             ELSE <<"own", "", wr>>

QueueKeys ==
  {<<"instance", th, g>> : th \in Receivers,
                           g \in (Groups \ {NoGroup}) \cup {"sym_" \o wr : wr \in Wrappers}}
  \cup {<<"global", "", g>> : g \in Groups \ {NoGroup}}
  \cup {<<"own", "", wr>> : wr \in Wrappers}

\* the outcome of the promise `next` of unit i
NextOutcome(i) ==
  IF units[i].status \in Outcomes
    THEN Settled(units[i].status, units[i].val)
    ELSE PendingP

\* next.finally(() => {}): settles as next does
finallyOutcome(o) == o

\* a queue whose units all chain on Promise.resolve()
pendingOutcomeUnchained(i) == Settled("resolved", 0)

\* `pending` as a unit enqueued after unit i sees it (i = 0: Promise.resolve())
pendingOutcome(i) ==
  IF i = 0 THEN Settled("resolved", 0) ELSE finallyOutcome(NextOutcome(i))

\* a queue that never moves its tail
newPendingKept(old, u) == old

\* pending = next.finally(() => {}): the queue's tail becomes the promise
\* derived from the new unit u (old: the unit the tail derived from before)
newPending(old, u) == u

\* the chain without its .catch(() => {})
catchOutcomeMissing(o) == o

\* a catch() whose handler never completes
catchOutcomeHangs(o) ==
  IF o.state = "rejected" THEN PendingP ELSE o

\* pending.catch(() => {}): a rejection becomes a fulfilment
catchOutcome(o) ==
  IF o.state = "rejected" THEN Settled("resolved", 0) ELSE o

\* ------------------------------------------------------------------- Init
\* the receivers the call sites in Z call with
ReceiversOf(Z) == {z[2] : z \in Z}

\* the state after throttle(delay, options) / debounce(delay, opts) has been
\* applied to the wrappers of the call sites Z: no window yet
InitWindows(Z) ==
  /\ kind \in {"throttle", "debounce"}
  /\ sequence \in {"serial", "concurrent", "gap"}
  /\ edge \in {"leading", "trailing"}
  /\ kind = "throttle"  => edge = "trailing"
  /\ kind = "debounce"  => sequence # "gap"
  /\ delay \in [Receivers -> Delays]
  /\ \A th \in Receivers \ ReceiversOf(Z) : delay[th] = 0
  /\ sopts = [wr \in Wrappers |-> [perInstance |-> FALSE, group |-> NoGroup]]
  /\ now = 0
  /\ windows = <<>>
  /\ windowMap = [k \in Keys |-> 0]
  /\ units = <<>>
  /\ pending = [q \in QueueKeys |-> 0]
  /\ started = <<>>
  /\ calls = <<>>

\* the state after serialize(opts) has been applied to each wrapper: every
\* queue is empty, its `pending` is Promise.resolve()
\* group names are arbitrary keys of globalGroups, compared by identity only:
\* the first named group is called "A", a second different one "B"
GroupsNamedInOrder ==
  /\ sopts["f"].group # "B"
  /\ sopts["g"].group = "B" => sopts["f"].group = "A"

InitQueues ==
  /\ kind = "serialize"
  /\ sequence = "serial"
  /\ edge = "trailing"
  /\ delay = [th \in Receivers |-> 0]
  /\ sopts \in [Wrappers -> [perInstance : BOOLEAN, group : Groups]]
  /\ GroupsNamedInOrder
  /\ now = 0
  /\ windows = <<>>
  /\ windowMap = [k \in Keys |-> 0]
  /\ units = <<>>
  /\ pending = [q \in QueueKeys |-> 0]
  /\ started = <<>>
  /\ calls = <<>>

\* ---------------------------------------------------------------- actions
Call(wr, th, w, p) ==
  [time |-> now, wrapper |-> wr, this |-> th, win |-> w, promise |-> p]

\* a timer that is due: armed, and its time has come
Due(win) == \E t \in win.timers : t <= now

\* time passes; a timer that is due fires when the host gets to it, which
\* may be later than the time it was armed for
Tick ==
  /\ kind # "serialize"
  /\ now < MaxTime
  /\ now' = now + 1
  /\ UNCHANGED <<kind, sequence, edge, delay, sopts, windows, windowMap,
                 units, pending, started, calls>>

\* a call of a throttled wrapper (throttle.ts: the returned function)
ThrottleCall(wr, th, b) ==
  /\ kind = "throttle"
  /\ Len(calls) < MaxCalls
  /\ LET c   == Len(calls) + 1
         key == Key(wr, th)
         S   == getOrInsertComputed(Heap, key,
                  ThrottleWindow(Heap, key, resolveDelay(th), c, b))
         w   == IF Heap.map[key] # 0 THEN Heap.map[key] ELSE Len(S.wins)
     IN  /\ windows' = S.wins
         /\ windowMap' = S.map
         /\ calls' = Append(calls, Call(wr, th, w, throttleReturn(c, w)))
  /\ UNCHANGED <<kind, sequence, edge, delay, sopts, now, units, pending, started>>

\* a call of a debounced wrapper (debounce.ts: the returned function)
DebounceCall(wr, th, b) ==
  /\ kind = "debounce"
  /\ Len(calls) < MaxCalls
  /\ LET c   == Len(calls) + 1
         key == Key(wr, th)
         S1  == getOrInsertComputed(Heap, key,
                  DebounceWindow(Heap, key, resolveDelay(th)))
         w   == S1.map[key]
         S2  == plan(S1, w, c, b)
     IN  /\ windows' = S2.wins
         /\ windowMap' = S2.map
         /\ calls' = Append(calls, Call(wr, th, w, debounceReturn(c, w)))
  /\ UNCHANGED <<kind, sequence, edge, delay, sopts, now, units, pending, started>>

\* the timer of window w fires, at the time it was armed for or later
Timeout(w, b) ==
  /\ w \in 1 .. Len(windows)
  /\ \E t \in windows[w].timers :
       /\ t <= now
       /\ LET S == timeoutCallback(fireTimer(Heap, w, t), w, b)
          IN  windows' = S.wins /\ windowMap' = S.map
  /\ UNCHANGED <<kind, sequence, edge, delay, sopts, now, units, pending,
                 started, calls>>

\* the thunk run() awaits settles with outcome k
Settle(w, k) ==
  /\ w \in 1 .. Len(windows)
  /\ windows[w].running # NoFunc
  /\ LET S == runSettle(Heap, w, windows[w].running, k)
     IN  windows' = S.wins /\ windowMap' = S.map
  /\ UNCHANGED <<kind, sequence, edge, delay, sopts, now, units, pending,
                 started, calls>>

\* instanceMaps is a WeakMap: getOrInsertComputed(instanceMaps, undefined, ..)
\* throws a TypeError from map.set, which rejects the async wrapper's promise
InvalidWeakKey(wr, th) == sopts[wr].perInstance /\ th = NoThis

\* a call of a serialized wrapper: queue(() => fn.apply(this, args))
SerializeCall(wr, th) ==
  /\ kind = "serialize"
  /\ Len(calls) < MaxCalls
  /\ LET c == Len(calls) + 1
         q == QueueKey(wr, th)
         u == Len(units) + 1
     IN  IF InvalidWeakKey(wr, th)
           THEN /\ calls' = Append(calls, Call(wr, th, 0, AsyncPromise(c)))
                /\ UNCHANGED <<units, pending>>
           ELSE /\ units' = Append(units, [queue |-> q, prev |-> pending[q], call |-> c,
                                           status |-> "waiting", val |-> 0, ran |-> FALSE])
                /\ pending' = [pending EXCEPT ![q] = newPending(pending[q], u)]
                /\ calls' = Append(calls, Call(wr, th, u, AsyncPromise(c)))
  /\ UNCHANGED <<kind, sequence, edge, delay, sopts, now, windows, windowMap, started>>

\* the reaction of unit u can run: the promise it chained on has settled
CanBegin(u) ==
  /\ u \in 1 .. Len(units)
  /\ units[u].status = "waiting"
  /\ catchOutcome(pendingOutcome(units[u].prev)).state # "pending"

\* pending.catch(() => {}).then(fn) of unit u reacts to `pending` settling
Begin(u, b) ==
  /\ CanBegin(u)
  /\ LET o == catchOutcome(pendingOutcome(units[u].prev))
     IN  IF o.state = "resolved"
           THEN /\ started' = Append(started, u)
                /\ units' = [units EXCEPT ![u].ran = TRUE,
                               ![u].status = IF b = "throws" THEN "rejected" ELSE "running",
                               ![u].val = IF b = "throws" THEN units[u].call ELSE 0]
           ELSE /\ started' = started
                /\ units' = [units EXCEPT ![u].status = "rejected", ![u].val = o.val]
  /\ UNCHANGED <<kind, sequence, edge, delay, sopts, now, windows, windowMap,
                 pending, calls>>

\* the promise fn of unit u returned settles with outcome k
Finish(u, k) ==
  /\ u \in 1 .. Len(units)
  /\ units[u].status = "running"
  /\ units' = [units EXCEPT ![u].status = k, ![u].val = units[u].call]
  /\ UNCHANGED <<kind, sequence, edge, delay, sopts, now, windows, windowMap,
                 pending, started, calls>>

\* the call sites of the program: which wrapper is called with which receiver
Sites      == {<<"f", NoThis>>}
QueueSites == {<<"f", NoThis>>, <<"g", NoThis>>, <<"f", "a">>, <<"g", "a">>}

Init == InitWindows(Sites)

Next ==
  \/ Tick
  \/ \E z \in Sites, b \in Behaviours : ThrottleCall(z[1], z[2], b)
  \/ \E z \in Sites, b \in Behaviours : DebounceCall(z[1], z[2], b)
  \/ \E w \in 1 .. MaxCalls, b \in Behaviours : Timeout(w, b)
  \/ \E w \in 1 .. MaxCalls, k \in Outcomes : Settle(w, k)

\* the timing windows: throttle and debounce
Spec == Init /\ [][Next]_vars

NextQueue ==
  \/ \E z \in QueueSites : SerializeCall(z[1], z[2])
  \/ \E u \in 1 .. MaxCalls, b \in Behaviours : Begin(u, b)
  \/ \E u \in 1 .. MaxCalls, k \in Outcomes : Finish(u, k)

\* the serial queues of serialize()
SpecQueue == InitQueues /\ [][NextQueue]_vars

\* a serialized function called plainly and as a method of a, and a
\* serialized method called on the instances a and b
MethodSites == {<<"f", NoThis>>, <<"f", "a">>, <<"g", "a">>, <<"g", "b">>}

NextMethods ==
  \/ \E z \in MethodSites : SerializeCall(z[1], z[2])
  \/ \E u \in 1 .. MaxCalls, b \in Behaviours : Begin(u, b)
  \/ \E u \in 1 .. MaxCalls, k \in Outcomes : Finish(u, k)

\* the serial queues of serialize(), on two instances
SpecMethods == InitQueues /\ [][NextMethods]_vars

\* one factory result applied to two methods, both called on instance a
SharedSites == {<<"f", "a">>, <<"g", "a">>}

NextShared ==
  \/ Tick
  \/ \E z \in SharedSites, b \in Behaviours : ThrottleCall(z[1], z[2], b)
  \/ \E z \in SharedSites, b \in Behaviours : DebounceCall(z[1], z[2], b)
  \/ \E w \in 1 .. MaxCalls, b \in Behaviours : Timeout(w, b)
  \/ \E w \in 1 .. MaxCalls, k \in Outcomes : Settle(w, k)

InitShared == InitWindows(SharedSites)

\* two wrappers made by the same throttler / debouncer
SpecShared == InitShared /\ [][NextShared]_vars

\* one decorated method, called on the instances a and b
InstanceSites == {<<"f", "a">>, <<"f", "b">>}

NextInstances ==
  \/ Tick
  \/ \E z \in InstanceSites, b \in Behaviours : ThrottleCall(z[1], z[2], b)
  \/ \E z \in InstanceSites, b \in Behaviours : DebounceCall(z[1], z[2], b)
  \/ \E w \in 1 .. MaxCalls, b \in Behaviours : Timeout(w, b)
  \/ \E w \in 1 .. MaxCalls, k \in Outcomes : Settle(w, k)

\* the delay function of the decorator gives b a longer delay than a
InitInstances == InitWindows(InstanceSites) /\ delay["a"] < delay["b"]

\* a method decorator with a per-instance delay, on two instances
SpecInstances == InitInstances /\ [][NextInstances]_vars

\* a debounced call made early enough for its timer to fire within the
\* modelled time: the calls stop before the clock does
DebounceCallInTime(wr, th, b) ==
  /\ now + resolveDelay(th) <= MaxTime
  /\ DebounceCall(wr, th, b)

InitLive == Init \/ InitQueues

\* two serialized methods called on instance a
LiveQueueSites == {<<"f", "a">>, <<"g", "a">>}

NextLive ==
  \/ Tick
  \/ \E z \in Sites, b \in Behaviours : ThrottleCall(z[1], z[2], b)
  \/ \E z \in Sites, b \in Behaviours : DebounceCallInTime(z[1], z[2], b)
  \/ \E w \in 1 .. MaxCalls, b \in Behaviours : Timeout(w, b)
  \/ \E w \in 1 .. MaxCalls, k \in Outcomes : Settle(w, k)
  \/ \E z \in LiveQueueSites : SerializeCall(z[1], z[2])
  \/ \E u \in 1 .. MaxCalls, b \in Behaviours : Begin(u, b)
  \/ \E u \in 1 .. MaxCalls, k \in Outcomes : Finish(u, k)

\* time passes and timers that are due fire; a thunk that was invoked
\* settles; a queued unit whose turn has come begins, and its fn settles
Fairness ==
  /\ WF_vars(Tick)
  /\ WF_vars(\E w \in 1 .. MaxCalls, b \in Behaviours : Timeout(w, b))
  /\ WF_vars(\E w \in 1 .. MaxCalls, k \in Outcomes : Settle(w, k))
  /\ WF_vars(\E u \in 1 .. MaxCalls, b \in Behaviours : Begin(u, b))
  /\ WF_vars(\E u \in 1 .. MaxCalls, k \in Outcomes : Finish(u, k))

\* throttle, debounce and serialize under these assumptions
SpecLive == InitLive /\ [][NextLive]_vars /\ Fairness

\* the fn of unit u may never settle: the functions wrapped as g may hang
MayHang(u) == calls[units[u].call].wrapper = "g"

\* a queued unit whose turn has come begins; the fn of a unit that has begun
\* settles, unless it is one that may hang
FairQueue ==
  /\ WF_vars(\E u \in 1 .. MaxCalls, b \in Behaviours : Begin(u, b))
  /\ WF_vars(\E u \in 1 .. MaxCalls, k \in Outcomes :
               Finish(u, k) /\ ~MayHang(u))

\* the serial queues under these assumptions
SpecQueueLive == InitQueues /\ [][NextQueue]_vars /\ FairQueue

\* time passes and timers that are due fire; a thunk that was invoked
\* settles, except that with sequence 'concurrent' it may never settle
FairTimers ==
  /\ WF_vars(Tick)
  /\ WF_vars(\E w \in 1 .. MaxCalls, b \in Behaviours : Timeout(w, b))
  /\ WF_vars(sequence # "concurrent"
               /\ \E w \in 1 .. MaxCalls, k \in Outcomes : Settle(w, k))

\* the timing windows under these assumptions
SpecDispose == Init /\ [][Next]_vars /\ FairTimers

\* ------------------------------------------------------------ observations
Windows == 1 .. Len(windows)
Units   == 1 .. Len(units)
Calls   == 1 .. Len(calls)

CallKey(c) == Key(calls[c].wrapper, calls[c].this)

\* the outcome a caller observes on the promise p it was returned: the
\* window's deferred, or for an async wrapper the promise it was resolved with
Observed(c) ==
  LET p == calls[c].promise
  IN  IF p[1] = "deferred" THEN windows[p[2]].deferred
      ELSE IF kind = "serialize"
             THEN IF calls[c].win = 0 THEN Settled("rejected", 0)
                  ELSE NextOutcome(calls[c].win)
      ELSE windows[calls[c].win].deferred

\* the calls that joined window w
Joiners(w) == {c \in Calls : calls[c].win = w}

\* w2 is the window made next after w1 for the same routing key
NextWindowOf(w1, w2) ==
  /\ w1 < w2
  /\ windows[w1].key = windows[w2].key
  /\ \A w3 \in Windows : (w1 < w3 /\ w3 < w2) => windows[w3].key # windows[w1].key

\* c2 is the call made next after c1 for the same routing key
NextCallOf(c1, c2) ==
  /\ c1 < c2
  /\ CallKey(c1) = CallKey(c2)
  /\ \A c3 \in Calls : (c1 < c3 /\ c3 < c2) => CallKey(c3) # CallKey(c1)

\* the step is a call of the wrapper with the routing key of window w
CallFor(w) ==
  /\ Len(calls') = Len(calls) + 1
  /\ Key(calls'[Len(calls')].wrapper, calls'[Len(calls')].this) = windows[w].key

\* window w is the window made last for its routing key
LatestOf(w) ==
  \A w3 \in Windows : w3 > w => windows[w3].key # windows[w].key

\* the units of the queue of unit u that were enqueued before u
Before(u) == {v \in Units : v < u /\ units[v].queue = units[u].queue}

\* ------------------------------------------------------------------ claims

\* C1: every timing window invokes its thunk at most once, however many
\* callers join it and in whatever order timeout, re-arm and settle occur.
C1_AtMostOneInvocation ==
  \A w \in Windows : windows[w].invocations <= 1

\* a trailing debounce window whose thunk is running, that was joined by a
\* later call, and whose re-armed timer has fired (run() was called again)
C1_Witness ==
  /\ kind = "debounce" /\ edge = "trailing"
  /\ \E w \in Windows :
       /\ windows[w].invocations = 1
       /\ windows[w].running # NoFunc
       /\ windows[w].func # windows[w].running
       /\ windows[w].timeoutId = NoTimer
       /\ Cardinality(Joiners(w)) >= 2

\* C2: the dispose callback (onClose) of a timing window is invoked exactly
\* once over the window's lifetime: never a second time.
C2_DisposeOnce ==
  \A w \in Windows : windows[w].closes <= 1

\* C3: two calls of a throttled wrapper return the identical promise if and
\* only if they landed in the same window.
C3_ThrottlePromiseIdentity ==
  kind = "throttle" =>
    \A c1, c2 \in Calls :
      (calls[c1].win = calls[c2].win) <=> (calls[c1].promise = calls[c2].promise)

\* two calls in one throttle window and a third in a later window
C3_Witness ==
  /\ kind = "throttle"
  /\ \E c1, c2, c3 \in Calls :
       /\ c1 < c2 /\ c2 < c3
       /\ calls[c1].win = calls[c2].win
       /\ calls[c3].win # calls[c2].win

\* C4: two calls of a debounced wrapper return the identical promise if and
\* only if they landed in the same debounce window.
C4_DebouncePromiseIdentity ==
  kind = "debounce" =>
    \A c1, c2 \in Calls :
      (calls[c1].win = calls[c2].win) <=> (calls[c1].promise = calls[c2].promise)

\* C5: for one routing key, two consecutive invocations of a throttled fn
\* start at least `delay` apart, in every sequence mode.
C5_ThrottleRate ==
  kind = "throttle" =>
    \A w1, w2 \in Windows :
      (NextWindowOf(w1, w2) /\ windows[w1].invocations > 0 /\ windows[w2].invocations > 0)
        => windows[w2].invokedAt - windows[w1].invokedAt >= windows[w1].delay

\* C6: a call of a debounced wrapper that arrives less than `delay` after the
\* previous call for the same routing key joins the window of that call.
C6_DebounceJoinsWithinDelay ==
  kind = "debounce" =>
    \A c1, c2 \in Calls :
      (NextCallOf(c1, c2) /\ calls[c2].time - calls[c1].time < windows[calls[c1].win].delay)
        => calls[c2].win = calls[c1].win

\* C7: in one serial queue a unit has begun only if every unit enqueued
\* before it has reached its final outcome; no two units of a queue run at
\* the same time.
C7_OneAtATime ==
  /\ \A u \in Units :
       units[u].ran => \A v \in Before(u) : units[v].status \in Outcomes
  /\ \A u, v \in Units :
       (units[u].status = "running" /\ units[v].status = "running"
          /\ units[u].queue = units[v].queue) => u = v

\* a unit running behind a finished one of the same queue
C7_Witness ==
  \E u \in Units : \E v \in Before(u) :
    units[u].status = "running" /\ units[v].status \in Outcomes /\ units[v].ran

\* C8: the units of one queue start, and complete, in the order in which
\* they were enqueued.
C8_Fifo ==
  /\ \A i, j \in 1 .. Len(started) :
       (i < j /\ units[started[i]].queue = units[started[j]].queue)
         => started[i] < started[j]
  /\ \A u \in Units :
       units[u].status \in Outcomes => \A v \in Before(u) : units[v].status \in Outcomes

\* three units of one queue, all started, with different outcomes among them
C8_Witness ==
  \E u \in Units :
    /\ Cardinality(Before(u)) >= 2
    /\ units[u].ran
    /\ \E v1, v2 \in Before(u) :
         units[v1].status = "resolved" /\ units[v2].status = "rejected"

\* C9: a unit enqueued behind a failed unit still runs its own fn and its
\* caller observes its own outcome; the failure of a unit is observed by
\* that unit's caller and by no other caller.
C9_FailureIsolation ==
  \A u \in Units :
    /\ units[u].status \in Outcomes =>
         /\ units[u].ran
         /\ Observed(units[u].call) = Settled(units[u].status, units[u].call)
    /\ \A c \in Calls :
         (Observed(c).state = "rejected" /\ Observed(c).val = units[u].call)
           => c = units[u].call

\* a unit that succeeded behind a failed unit of its queue
C9_Witness ==
  \E u \in Units : \E v \in Before(u) :
    /\ units[v].status = "rejected"
    /\ units[u].status = "resolved"
    /\ Observed(units[u].call) = Settled("resolved", units[u].call)
    /\ Observed(units[v].call) = Settled("rejected", units[v].call)

\* C10: if the thunk of a window throws or rejects, every caller that joined
\* the window observes a rejection with that error; the result of any other
\* window is the outcome of its own thunk.
C10_FailureFanOut ==
  /\ \A c \in Calls :
       windows[calls[c].win].thunk.state = "rejected"
         => Observed(c) = windows[calls[c].win].thunk
  /\ \A w \in Windows :
       /\ windows[w].thunk.state # "pending" => windows[w].thunk.val \in Joiners(w)
       /\ windows[w].deferred.state # "pending" => windows[w].deferred = windows[w].thunk

\* a failed window with two joiners, and a later window for the same key
\* that succeeded
C10_Witness ==
  \E w1, w2 \in Windows :
    /\ NextWindowOf(w1, w2)
    /\ windows[w1].thunk.state = "rejected"
    /\ Cardinality(Joiners(w1)) >= 2
    /\ \A c \in Joiners(w1) : Observed(c).state = "rejected"
    /\ windows[w2].deferred.state = "resolved"

\* the call whose thunk window w invoked (0: none yet)
InvokedCall(w) ==
  IF windows[w].running # NoFunc THEN windows[w].running
  ELSE IF windows[w].thunk.state # "pending" THEN windows[w].thunk.val
  ELSE 0

\* the times of the calls, the windows they landed in, and what they observe
CallTimes   == [c \in Calls |-> calls[c].time]
CallWindows == [c \in Calls |-> calls[c].win]
CallResults == [c \in Calls |-> Observed(c)]

\* C11: throttle, sequence 'serial': a call opens a new window only when the
\* delay has elapsed since the current window was created and its execution
\* has finished; a call arriving before that joins the current window.
C11_ThrottleSerial ==
  (kind = "throttle" /\ sequence = "serial") =>
    \A c1, c2 \in Calls :
      NextCallOf(c1, c2) =>
        LET w1 == windows[calls[c1].win]
        IN  calls[c2].win # calls[c1].win =>
              /\ w1.settled
              /\ calls[c2].time >= w1.invokedAt + w1.delay

\* delay 2, calls at 0, 1, 3 of a thunk resolving to its argument: the
\* results are those of calls 1, 1, 3
C11_Witness ==
  /\ kind = "throttle" /\ sequence = "serial"
  /\ Len(windows) = 2 /\ windows[1].delay = 2
  /\ CallTimes = <<0, 1, 3>>
  /\ CallWindows = <<1, 1, 2>>
  /\ CallResults = <<Settled("resolved", 1), Settled("resolved", 1), Settled("resolved", 3)>>

\* C12 as stated: throttle, sequence 'concurrent': the window closes when
\* the delay elapses, settled or not, so a call arriving after the delay
\* opens a new window whose invocation can overlap the previous one.
C12_ThrottleConcurrent ==
  (kind = "throttle" /\ sequence = "concurrent") =>
    /\ \A w \in Windows :
         /\ (windows[w].closes > 0) <=> windows[w].timedOut
         /\ windows[w].timedOut => now >= windows[w].invokedAt + windows[w].delay
         /\ now > windows[w].invokedAt + windows[w].delay => windows[w].timedOut
    /\ \A c1, c2 \in Calls :
         NextCallOf(c1, c2) =>
           LET w1 == windows[calls[c1].win]
               w2 == windows[calls[c2].win]
           IN  calls[c2].time > w1.invokedAt + w1.delay =>
                 /\ calls[c2].win # calls[c1].win
                 /\ w2.invocations = 1
                 /\ w2.invokedAt = calls[c2].time

\* C12, amended: throttle, sequence 'concurrent': the window closes when its
\* timer fires, settled or not, which is no earlier than delay after its
\* creation; a call arriving after the timer has fired opens a new window
\* with an invocation of its own; a call arriving while the window is still
\* registered joins it and gets its promise, whatever time has passed.
C12_ThrottleConcurrentOnTimer ==
  /\ []((kind = "throttle" /\ sequence = "concurrent") =>
          \A w \in Windows :
            /\ (windows[w].closes > 0) <=> windows[w].timedOut
            /\ windows[w].timedOut =>
                 now >= windows[w].invokedAt + windows[w].delay)
  /\ [][(kind = "throttle" /\ sequence = "concurrent") =>
          \A w \in Windows :
            (CallFor(w) /\ LatestOf(w) /\ windows[w].timedOut) =>
               /\ Len(windows') = Len(windows) + 1
               /\ calls'[Len(calls')].win = Len(windows')
               /\ windows'[Len(windows')].invocations = 1
               /\ windows'[Len(windows')].invokedAt = now]_vars
  /\ [][(kind = "throttle" /\ sequence = "concurrent") =>
          \A w \in Windows :
            (CallFor(w) /\ windowMap[windows[w].key] = w) =>
               /\ Len(windows') = Len(windows)
               /\ calls'[Len(calls')].win = w
               /\ calls'[Len(calls')].promise = Deferred(w)
               /\ windows'[w].invocations = windows[w].invocations]_vars

\* delay 2, calls at 0, 1, 3 of a thunk that takes longer: the third call
\* runs its thunk while the first call's thunk is still running
C12_Witness ==
  /\ kind = "throttle" /\ sequence = "concurrent"
  /\ Len(windows) = 2 /\ windows[1].delay = 2
  /\ CallTimes = <<0, 1, 3>>
  /\ CallWindows = <<1, 1, 2>>
  /\ windows[1].running = 1 /\ windows[2].running = 3

\* the gap timer of window w is started by the step: it was not settled and
\* now is
SettlesIn(w) == ~windows[w].settled /\ windows'[w].settled

\* the entry of window w is removed from the map by the step
Unregistered(w) ==
  /\ windowMap[windows[w].key] = w
  /\ windowMap'[windows[w].key] # w

\* C13: throttle, sequence 'gap': the delay starts when the execution has
\* finished, and no new window opens before it has elapsed: a window stays
\* registered while its thunk runs and while the timer armed at settlement
\* (for now + delay) is pending, its entry is removed only by that timer
\* firing, at its deadline or later, and every call made until then joins it.
C13_ThrottleGap ==
  /\ [](kind = "throttle" /\ sequence = "gap" =>
         /\ \A w \in Windows :
              /\ (windows[w].timeoutId # NoTimer \/ windows[w].timedOut)
                   => windows[w].settled
              /\ (~windows[w].settled \/ windows[w].timeoutId # NoTimer)
                   => windowMap[windows[w].key] = w
         /\ \A c1, c2 \in Calls :
              (NextCallOf(c1, c2) /\ calls[c2].win # calls[c1].win) =>
                 /\ windows[calls[c1].win].settled
                 /\ windows[calls[c1].win].timedOut
                 /\ calls[c2].time >= windows[calls[c1].win].invokedAt
                                        + windows[calls[c1].win].delay)
  /\ [][kind = "throttle" /\ sequence = "gap" =>
         \A w \in Windows :
           /\ SettlesIn(w) =>
                windows'[w].timeoutId = now + windows[w].delay
           /\ Unregistered(w) =>
                /\ windows[w].timeoutId # NoTimer
                /\ windows[w].timeoutId <= now
                /\ windows'[w].timedOut
           /\ (windows[w].timeoutId # NoTimer
                 /\ windows'[w].timeoutId # windows[w].timeoutId) =>
                windows[w].timeoutId <= now]_vars

\* delay 2: the first call's thunk settles at 1, so the timer is due at 3;
\* the call at 2 (in the gap) joins, the call at 3, after the timer has
\* fired, opens the second window
C13_Witness ==
  /\ kind = "throttle" /\ sequence = "gap"
  /\ Len(windows) = 2 /\ windows[1].delay = 2
  /\ CallTimes = <<0, 2, 3>>
  /\ CallWindows = <<1, 1, 2>>
  /\ windows[1].timedOut /\ windows[2].running = 3

\* the last call that joined window w so far
LastJoiner(w) == CHOOSE c \in Joiners(w) : \A d \in Joiners(w) : d <= c

\* C14 as stated: debounce, edge 'trailing': no call invokes the thunk;
\* every call re-arms the timer for delay after itself, and the thunk is
\* invoked once, by the timer, delay after a call that no other call of the
\* window followed in the meantime.
C14_DebounceTrailing ==
  (kind = "debounce" /\ edge = "trailing") =>
    \A w \in Windows :
      /\ windows[w].invocations <= 1
      /\ windows[w].invocations = 0 => windows[w].timeoutId # NoTimer
      /\ windows[w].timeoutId # NoTimer =>
           windows[w].timeoutId = calls[LastJoiner(w)].time + windows[w].delay
      /\ windows[w].invocations = 1 =>
           /\ windows[w].timedOut
           /\ InvokedCall(w) \in Joiners(w)
           /\ windows[w].invokedAt
                = calls[InvokedCall(w)].time + windows[w].delay
           /\ \A c \in Joiners(w) :
                ~ ( calls[InvokedCall(w)].time < calls[c].time
                    /\ calls[c].time < windows[w].invokedAt )

\* C14, amended: debounce, edge 'trailing': no call invokes the thunk; every
\* call re-arms the timer for delay after itself, and the thunk is invoked
\* once, by the timer, no earlier than delay after a call that no other call
\* of the window followed before the invocation.
C14_DebounceTrailingNoEarlier ==
  (kind = "debounce" /\ edge = "trailing") =>
    \A w \in Windows :
      /\ windows[w].invocations <= 1
      /\ windows[w].invocations = 0 => windows[w].timeoutId # NoTimer
      /\ windows[w].timeoutId # NoTimer =>
           windows[w].timeoutId = calls[LastJoiner(w)].time + windows[w].delay
      /\ windows[w].invocations = 1 =>
           /\ windows[w].timedOut
           /\ InvokedCall(w) \in Joiners(w)
           /\ windows[w].invokedAt
                >= calls[InvokedCall(w)].time + windows[w].delay
           /\ \A c \in Joiners(w) :
                ~ ( calls[InvokedCall(w)].time < calls[c].time
                    /\ calls[c].time < windows[w].invokedAt )

\* delay 2, calls at 0, 1, 2: one invocation, at 4, and the three calls get
\* the result of the third
C14_Witness ==
  /\ kind = "debounce" /\ edge = "trailing"
  /\ Len(windows) = 1 /\ windows[1].delay = 2
  /\ CallTimes = <<0, 1, 2>>
  /\ CallWindows = <<1, 1, 1>>
  /\ windows[1].invocations = 1 /\ windows[1].invokedAt = 4
  /\ CallResults = <<Settled("resolved", 3), Settled("resolved", 3), Settled("resolved", 3)>>

\* C15 as stated: the thunk a trailing window executes is the one of the most
\* recent call that joined the window.
C15_LastJoinerWins ==
  (kind = "debounce" /\ edge = "trailing") =>
    \A w \in Windows :
      windows[w].invocations = 1 => InvokedCall(w) = LastJoiner(w)

\* C15, amended: the thunk a trailing window executes is the one of the most
\* recent call that joined before the timer fired; every joiner, also one that
\* joins after the invocation, gets the result of that thunk.
C15_LastJoinerBeforeTimeoutWins ==
  (kind = "debounce" /\ edge = "trailing") =>
    \A w \in Windows :
      windows[w].invocations = 1 =>
        /\ InvokedCall(w) \in Joiners(w)
        /\ calls[InvokedCall(w)].time <= windows[w].invokedAt
        /\ windows[w].func = LastJoiner(w)
        /\ \A c \in Joiners(w) :
             /\ calls[c].time < windows[w].invokedAt => c <= InvokedCall(w)
             /\ Observed(c).state # "pending" =>
                  Observed(c).val = InvokedCall(w)

\* two calls set the thunk, the timer runs the second one, a third call joins
\* while it runs, and all three get the result of the second
C15_Witness ==
  /\ kind = "debounce" /\ edge = "trailing" /\ sequence = "serial"
  /\ Len(windows) = 1
  /\ CallWindows = <<1, 1, 1>>
  /\ calls[2].time < windows[1].invokedAt
  /\ windows[1].invokedAt < calls[3].time
  /\ InvokedCall(1) = 2
  /\ CallResults = <<Settled("resolved", 2), Settled("resolved", 2), Settled("resolved", 2)>>

\* the call that created window w
FirstJoiner(w) == CHOOSE c \in Joiners(w) : \A d \in Joiners(w) : c <= d

\* C16: debounce, edge 'leading': the thunk of the call that opens the window
\* is invoked within that call; the thunks of the calls that join later are
\* never invoked: they re-arm the timer and get the first call's result.
C16_DebounceLeading ==
  (kind = "debounce" /\ edge = "leading") =>
    \A w \in Windows :
      /\ windows[w].fired
      /\ windows[w].invocations = 1
      /\ InvokedCall(w) = FirstJoiner(w)
      /\ windows[w].invokedAt = calls[FirstJoiner(w)].time
      /\ windows[w].timeoutId # NoTimer =>
           windows[w].timeoutId = calls[LastJoiner(w)].time + windows[w].delay
      /\ \A c \in Joiners(w) :
           Observed(c).state # "pending" => Observed(c).val = FirstJoiner(w)

\* three calls at different times in one window: one invocation, at the
\* first call, whose result all three get
C16_Witness ==
  /\ kind = "debounce" /\ edge = "leading"
  /\ Len(windows) = 1
  /\ CallWindows = <<1, 1, 1>>
  /\ calls[1].time < calls[2].time /\ calls[2].time < calls[3].time
  /\ windows[1].invocations = 1
  /\ windows[1].invokedAt = calls[1].time
  /\ windows[1].timeoutId = calls[3].time + windows[1].delay
  /\ CallResults = <<Settled("resolved", 1), Settled("resolved", 1), Settled("resolved", 1)>>

\* C17: debounce, sequence 'serial': once its thunk has been invoked, a window
\* stays registered and absorbs calls until the thunk has settled, also when
\* the delay has elapsed meanwhile; a call lands in a new window only after
\* the previous window's thunk has settled.
C17_DebounceSerial ==
  (kind = "debounce" /\ sequence = "serial") =>
    /\ \A w \in Windows :
         (windows[w].fired /\ ~windows[w].settled) =>
            /\ windowMap[windows[w].key] = w
            /\ windows[w].closes = 0
            /\ windows[w].deferred.state = "pending"
    /\ \A c1, c2 \in Calls :
         (NextCallOf(c1, c2) /\ calls[c2].win # calls[c1].win) =>
            windows[calls[c1].win].settled

\* leading edge, delay 1, calls at 0, 1, 3: the timer fired at 2, the thunk
\* is still running at 3 and the third call joins
C17_Witness ==
  /\ kind = "debounce" /\ sequence = "serial" /\ edge = "leading"
  /\ Len(windows) = 1 /\ windows[1].delay = 1
  /\ CallTimes = <<0, 1, 3>>
  /\ CallWindows = <<1, 1, 1>>
  /\ windows[1].timedOut /\ windows[1].running = 1

\* C18 as stated: debounce, sequence 'concurrent': a window runs close() when
\* its timer fires, settled or not; a call made more than delay after the
\* previous call lands in another window, with another promise and an
\* invocation of its own; and a window's promise is settled by its own
\* thunk only.
C18_DebounceConcurrent ==
  (kind = "debounce" /\ sequence = "concurrent") =>
    /\ \A w \in Windows :
         /\ (windows[w].closes > 0) <=> windows[w].timedOut
         /\ windows[w].timedOut => windowMap[windows[w].key] # w
         /\ windows[w].invocations = 1 => InvokedCall(w) \in Joiners(w)
         /\ windows[w].deferred.state # "pending" =>
              /\ windows[w].deferred = windows[w].thunk
              /\ windows[w].deferred.val \in Joiners(w)
    /\ \A c1, c2 \in Calls :
         (NextCallOf(c1, c2)
            /\ calls[c2].time > calls[c1].time + windows[calls[c1].win].delay) =>
           /\ calls[c2].win # calls[c1].win
           /\ calls[c2].promise # calls[c1].promise
           /\ windows[calls[c1].win].timedOut

\* C18, amended: debounce, sequence 'concurrent': every call re-arms the
\* timer of its window for delay after itself; a window runs close() when its
\* timer fires, settled or not, which is no earlier than delay after the last
\* call that joined it; a call arriving after the timer has fired lands in a
\* new window, with another promise and an invocation of its own; a call
\* arriving while the window is still registered joins it, however long ago
\* the previous call was; and a window's promise is settled by its own thunk
\* only.
C18_DebounceConcurrentOnTimer ==
  /\ []((kind = "debounce" /\ sequence = "concurrent") =>
          \A w \in Windows :
            /\ (windows[w].closes > 0) <=> windows[w].timedOut
            /\ windows[w].timeoutId # NoTimer =>
                 windows[w].timeoutId
                   = calls[LastJoiner(w)].time + windows[w].delay
            /\ windows[w].timedOut =>
                 /\ windowMap[windows[w].key] # w
                 /\ now >= calls[LastJoiner(w)].time + windows[w].delay
            /\ windows[w].invocations = 1 => InvokedCall(w) \in Joiners(w)
            /\ windows[w].deferred.state # "pending" =>
                 /\ windows[w].deferred = windows[w].thunk
                 /\ windows[w].deferred.val \in Joiners(w))
  /\ [][(kind = "debounce" /\ sequence = "concurrent") =>
          \A w \in Windows :
            (CallFor(w) /\ LatestOf(w) /\ windows[w].timedOut) =>
               /\ Len(windows') = Len(windows) + 1
               /\ calls'[Len(calls')].win = Len(windows')
               /\ \A c \in Calls : calls[c].promise # calls'[Len(calls')].promise
               /\ windows'[Len(windows')].func = Len(calls')
               /\ edge = "leading" =>
                    windows'[Len(windows')].invocations = 1]_vars
  /\ [][(kind = "debounce" /\ sequence = "concurrent") =>
          \A w \in Windows :
            (CallFor(w) /\ windowMap[windows[w].key] = w) =>
               /\ Len(windows') = Len(windows)
               /\ calls'[Len(calls')].win = w
               /\ ~windows[w].timedOut
               /\ windows'[w].timeoutId = now + windows[w].delay]_vars

\* leading edge, delay 1, calls at 0, 1, 3: the timer fired at 2 while the
\* first thunk runs; the call at 3 opens a second window and runs its thunk
\* while the first is still running
C18_Witness ==
  /\ kind = "debounce" /\ sequence = "concurrent" /\ edge = "leading"
  /\ Len(windows) = 2 /\ windows[1].delay = 1
  /\ CallTimes = <<0, 1, 3>>
  /\ CallWindows = <<1, 1, 2>>
  /\ windows[1].running = 1 /\ windows[2].running = 3

\* C19: wrappers made by one throttler / debouncer are independent, whatever
\* receivers they are called with: no call joins a window created by a call
\* of another wrapper, and no call gets the result of another wrapper's
\* function.
C19_WrappersIndependent ==
  \A c \in Calls :
    /\ calls[FirstJoiner(calls[c].win)].wrapper = calls[c].wrapper
    /\ Observed(c).state # "pending" =>
         calls[Observed(c).val].wrapper = calls[c].wrapper

\* the instance window w belongs to: the receiver of the call that created it
InstanceOf(w) == calls[FirstJoiner(w)].this

\* C20: method decorator: the state is per instance. Every call lands in a
\* window of its own instance, created with the delay resolved for that
\* instance; a call on one instance leaves the windows and the map entry of
\* the other instance as they are, and no step changes windows or entries of
\* both instances.
C20_PerInstance ==
  /\ [](/\ \A c \in Calls :
             /\ InstanceOf(calls[c].win) = calls[c].this
             /\ windows[calls[c].win].key = <<"this", calls[c].this>>
             /\ windows[calls[c].win].delay = delay[calls[c].this]
        /\ \A k \in Keys :
             windowMap[k] # 0 => windows[windowMap[k]].key = k)
  /\ [][/\ Len(calls') = Len(calls) + 1 =>
             \A w \in Windows :
               InstanceOf(w) # calls'[Len(calls')].this =>
                 /\ windows'[w] = windows[w]
                 /\ windowMap'[windows[w].key] = windowMap[windows[w].key]
        /\ \A w1, w2 \in Windows :
             (windows'[w1] # windows[w1] /\ windows'[w2] # windows[w2]) =>
                InstanceOf(w1) = InstanceOf(w2)
        /\ \A w \in Windows, k \in Keys :
             (windows'[w] # windows[w] /\ windowMap'[k] # windowMap[k]) =>
                k = windows[w].key
        /\ \A k1, k2 \in Keys :
             (windowMap'[k1] # windowMap[k1] /\ windowMap'[k2] # windowMap[k2]) =>
                k1 = k2]_vars

\* throttle with delay 1 for a and 2 for b, both called at 0: the call on a
\* at 1 opens a's second window while b's first window, with its delay of 2,
\* is still open and its timer still pending
C20_Witness ==
  /\ kind = "throttle" /\ sequence = "serial"
  /\ delay["a"] = 1 /\ delay["b"] = 2
  /\ Len(calls) = 3 /\ CallTimes = <<0, 0, 1>>
  /\ <<calls[1].this, calls[2].this, calls[3].this>> = <<"a", "b", "a">>
  /\ CallWindows = <<1, 2, 3>>
  /\ windows[1].delay = 1 /\ windows[2].delay = 2 /\ windows[3].delay = 1
  /\ windowMap[<<"this", "b">>] = 2 /\ windows[2].timeoutId = 2

\* the unit of call c (0: the call made none)
UnitOf(c) == calls[c].win

\* the options the wrapper of call c was made with
OptsOf(c) == sopts[calls[c].wrapper]

\* calls c1 and c2 go through wrappers without perInstance that were made
\* with the same explicit group, or through the same wrapper made without
\* a group
SharedGlobally(c1, c2) ==
  /\ ~OptsOf(c1).perInstance /\ ~OptsOf(c2).perInstance
  /\ \/ OptsOf(c1).group # NoGroup /\ OptsOf(c1).group = OptsOf(c2).group
     \/ /\ OptsOf(c1).group = NoGroup /\ OptsOf(c2).group = NoGroup
        /\ calls[c1].wrapper = calls[c2].wrapper

\* c1 and c2 are serialized against each other in call order: they use one
\* queue, are never running together, and the later one begins only when the
\* earlier one has reached its outcome
Serialized(c1, c2) ==
  /\ units[UnitOf(c1)].queue = units[UnitOf(c2)].queue
  /\ ~(units[UnitOf(c1)].status = "running" /\ units[UnitOf(c2)].status = "running")
  /\ units[UnitOf(c2)].ran => units[UnitOf(c1)].status \in Outcomes

\* C21: without perInstance, wrappers made with the same explicit group share
\* one queue, whatever wrapper, form or instance a call goes through; a
\* wrapper made without group and without perInstance has one queue for all
\* instances. Their calls run one at a time in call order.
C21_SharedGroupQueue ==
  (kind = "serialize") =>
    \A c1, c2 \in Calls :
      (c1 < c2 /\ SharedGlobally(c1, c2)) => Serialized(c1, c2)

\* f and g both made with group A: a plain call of f has finished, g called
\* on instance a is running, g called on instance b waits
C21_Witness ==
  /\ kind = "serialize"
  /\ sopts = [wr \in Wrappers |-> [perInstance |-> FALSE, group |-> "A"]]
  /\ Len(calls) = 3
  /\ <<calls[1].wrapper, calls[2].wrapper, calls[3].wrapper>> = <<"f", "g", "g">>
  /\ <<calls[1].this, calls[2].this, calls[3].this>> = <<NoThis, "a", "b">>
  /\ units[1].status \in Outcomes /\ units[1].ran
  /\ units[2].status = "running"
  /\ units[3].status = "waiting"

\* calls c1 and c2 go through wrappers without perInstance whose routing keys
\* differ: different groups, or wrappers of separate group-less serialize()
\* calls
RoutedApart(c1, c2) ==
  /\ ~OptsOf(c1).perInstance /\ ~OptsOf(c2).perInstance
  /\ ~SharedGlobally(c1, c2)

\* the unit of call c waits, and the earlier calls that share its queue have
\* all reached their outcome
ReadyInOwnQueue(c) ==
  /\ units[UnitOf(c)].status = "waiting"
  /\ \A d \in Calls :
       (d < c /\ SharedGlobally(c, d)) => units[UnitOf(d)].status \in Outcomes

\* C22: queues with different routing keys are independent: calls routed
\* apart use different queues, and a unit never waits for a unit of another
\* queue: if the earlier units of its own queue have finished it can begin,
\* whatever the units of other queues are doing.
C22_QueuesIndependent ==
  (kind = "serialize") =>
    /\ \A c1, c2 \in Calls :
         RoutedApart(c1, c2) =>
            units[UnitOf(c1)].queue # units[UnitOf(c2)].queue
    /\ \A u \in Units :
         units[u].prev # 0 => units[units[u].prev].queue = units[u].queue
    /\ \A c \in Calls :
         (~OptsOf(c).perInstance /\ ReadyInOwnQueue(c)) =>
            CanBegin(UnitOf(c))

\* f in group A and g in group B, both running; a second call of f waits
\* for the first only
C22_Witness ==
  /\ kind = "serialize"
  /\ sopts = [f |-> [perInstance |-> FALSE, group |-> "A"],
              g |-> [perInstance |-> FALSE, group |-> "B"]]
  /\ Len(calls) = 3
  /\ <<calls[1].wrapper, calls[2].wrapper, calls[3].wrapper>> = <<"f", "g", "f">>
  /\ units[1].status = "running"
  /\ units[2].status = "running"
  /\ units[3].status = "waiting"

\* calls c1 and c2 go through perInstance wrappers and are made on the same
\* instance, through wrappers of the same explicit group or through the same
\* group-less wrapper
SharedPerInstance(c1, c2) ==
  /\ OptsOf(c1).perInstance /\ OptsOf(c2).perInstance
  /\ calls[c1].this # NoThis /\ calls[c1].this = calls[c2].this
  /\ \/ OptsOf(c1).group # NoGroup /\ OptsOf(c1).group = OptsOf(c2).group
     \/ /\ OptsOf(c1).group = NoGroup /\ OptsOf(c2).group = NoGroup
        /\ calls[c1].wrapper = calls[c2].wrapper

\* calls c1 and c2 go through perInstance wrappers, on different instances
\* or in different groups of one instance
ApartPerInstance(c1, c2) ==
  /\ OptsOf(c1).perInstance /\ OptsOf(c2).perInstance
  /\ calls[c1].this # NoThis /\ calls[c2].this # NoThis
  /\ \/ calls[c1].this # calls[c2].this
     \/ /\ OptsOf(c1).group # NoGroup /\ OptsOf(c2).group # NoGroup
        /\ OptsOf(c1).group # OptsOf(c2).group

\* C23: with perInstance the queues are scoped to the receiver: calls on the
\* same instance, in the same group when one is given, run one at a time in
\* call order; calls on different instances, or in different groups of one
\* instance, use different queues and so may overlap.
C23_PerInstanceQueues ==
  (kind = "serialize") =>
    \A c1, c2 \in Calls :
      /\ (c1 < c2 /\ SharedPerInstance(c1, c2)) => Serialized(c1, c2)
      /\ ApartPerInstance(c1, c2) =>
            units[UnitOf(c1)].queue # units[UnitOf(c2)].queue

\* g made with perInstance: its calls on instances a and b run at the same
\* time, and a second call on a waits for the first
C23_Witness ==
  /\ kind = "serialize"
  /\ sopts["g"] = [perInstance |-> TRUE, group |-> NoGroup]
  /\ Len(calls) = 3
  /\ <<calls[1].wrapper, calls[2].wrapper, calls[3].wrapper>> = <<"g", "g", "g">>
  /\ <<calls[1].this, calls[2].this, calls[3].this>> = <<"a", "b", "a">>
  /\ units[UnitOf(1)].status = "running"
  /\ units[UnitOf(2)].status = "running"
  /\ units[UnitOf(3)].status = "waiting"

\* C24: every call of a serialized wrapper gets a promise of its own, and a
\* settled promise carries the outcome of the call's own unit, which ran the
\* call's own fn: never the value or error of another unit.
C24_OwnPromise ==
  (kind = "serialize") =>
    /\ \A c1, c2 \in Calls :
         c1 # c2 => /\ calls[c1].promise # calls[c2].promise
                    /\ (UnitOf(c1) # 0 /\ UnitOf(c2) # 0) => UnitOf(c1) # UnitOf(c2)
    /\ \A c \in Calls :
         UnitOf(c) # 0 =>
           /\ units[UnitOf(c)].call = c
           /\ Observed(c).state # "pending" =>
                /\ units[UnitOf(c)].ran
                /\ Observed(c) = Settled(units[UnitOf(c)].status, c)

\* three calls of one queue, settled: the second failed, the first and the
\* third got their own values
C24_Witness ==
  /\ kind = "serialize"
  /\ Len(calls) = 3
  /\ \A c \in Calls : UnitOf(c) # 0 /\ units[UnitOf(c)].queue = units[UnitOf(1)].queue
  /\ <<Observed(1), Observed(2), Observed(3)>>
       = <<Settled("resolved", 1), Settled("rejected", 2), Settled("resolved", 3)>>

\* C25: a throttle window invokes the thunk within the call that creates it,
\* once, with that call's arguments; the calls that join get the creator's
\* result and their own arguments are not used.
C25_ThrottleEager ==
  (kind = "throttle") =>
    \A w \in Windows :
      /\ windows[w].fired
      /\ windows[w].invocations = 1
      /\ InvokedCall(w) = FirstJoiner(w)
      /\ windows[w].invokedAt = calls[FirstJoiner(w)].time
      /\ \A c \in Joiners(w) :
           /\ calls[c].promise = Deferred(w)
           /\ Observed(c).state # "pending" => Observed(c).val = FirstJoiner(w)

\* three calls at different times in one throttle window: the thunk of the
\* first ran, at the time of the first call, and all three have its result
C25_Witness ==
  /\ kind = "throttle"
  /\ Len(windows) = 1
  /\ CallWindows = <<1, 1, 1>>
  /\ calls[1].time < calls[2].time /\ calls[2].time < calls[3].time
  /\ windows[1].invocations = 1
  /\ windows[1].invokedAt = calls[1].time
  /\ CallResults = <<Settled("resolved", 1), Settled("resolved", 1), Settled("resolved", 1)>>

\* call c has been made and the promise it got is settled
SettledFor(c) == c \in Calls /\ Observed(c).state # "pending"

\* no caller is waiting
AllSettled == \A c \in Calls : SettledFor(c)

\* C26: if timers fire, invoked thunks settle and the calls stop, no caller
\* of a throttle, debounce or serialize wrapper is left with a promise that
\* stays pending for ever: again and again every call made so far has its
\* promise settled.
C26_EventuallySettled == []<>AllSettled

\* a trailing debounce window whose three callers have all been answered by
\* the invocation the timer made
C26_Witness ==
  /\ kind = "debounce" /\ edge = "trailing"
  /\ Len(calls) = MaxCalls
  /\ \A c \in Calls : SettledFor(c) /\ calls[c].win = 1
  /\ windows[1].timedOut

\* window w has been disposed: its close() has run
Disposed(w) == windows[w].closes > 0

\* the step is a call, which lands in window w
CallInto(w) ==
  /\ Len(calls') = Len(calls) + 1
  /\ calls'[Len(calls')].win = w

\* C27: a disposed window is unreachable from routing and is not reused: it
\* has no entry in the map and no timer, no later call joins it or arms its
\* timer, and a call made when the key has no window creates a new window,
\* which has made no invocation before.
C27_DisposedNotReused ==
  /\ [](\A w \in Windows :
          Disposed(w) => /\ windowMap[windows[w].key] # w
                         /\ windows[w].timeoutId = NoTimer)
  /\ [][\A w \in Windows :
          /\ Disposed(w) =>
               /\ ~CallInto(w)
               /\ windows'[w].timeoutId = NoTimer
               /\ windowMap'[windows[w].key] # w
          /\ CallInto(w) => windowMap[windows[w].key] = w]_vars
  /\ [][\A k \in Keys :
          (Len(calls') = Len(calls) + 1
             /\ Key(calls'[Len(calls')].wrapper, calls'[Len(calls')].this) = k
             /\ windowMap[k] = 0) =>
            /\ Len(windows') = Len(windows) + 1
            /\ calls'[Len(calls')].win = Len(windows')
            /\ windows'[Len(windows')].invocations
                 = (IF kind = "debounce" /\ edge = "trailing" THEN 0 ELSE 1)]_vars

\* a throttle window was disposed and the next call opened a second window,
\* whose thunk is running
C27_Witness ==
  /\ kind = "throttle"
  /\ Len(windows) = 2
  /\ Disposed(1) /\ windows[1].closes = 1
  /\ CallWindows = <<1, 1, 2>>
  /\ windows[2].running = 3

\* the thunk of window w fails in the step: by throwing inside the call or
\* the timer callback that invoked it, or by a promise that rejects
FailsIn(w) ==
  /\ w <= Len(windows')
  /\ windows'[w].thunk.state = "rejected"
  /\ w <= Len(windows) => windows[w].thunk.state = "pending"

\* C28: a window whose thunk fails still closes per its policy, and a
\* synchronous throw takes the same path as a rejection: whichever way the
\* thunk fails, the step leaves the window settled with its promise rejected,
\* in 'gap' mode with the timer armed for now + delay, and disposed if the
\* policy permits; every window the policy permits to close is disposed, and
\* a 'gap' window is disposed when the timer armed at settlement has fired.
C28_FailureStillCloses ==
  /\ [](\A w \in Windows :
          /\ windows[w].thunk.state = "rejected" =>
               /\ windows[w].settled
               /\ windows[w].deferred = windows[w].thunk
          /\ ClosePermitted(windows[w]) => Disposed(w)
          /\ (kind = "throttle" /\ sequence = "gap" /\ windows[w].settled) =>
               /\ windows[w].timeoutId # NoTimer \/ windows[w].timedOut
               /\ windows[w].timedOut => Disposed(w))
  /\ [][\A w \in 1 .. MaxCalls :
          FailsIn(w) =>
            /\ windows'[w].settled
            /\ windows'[w].deferred = windows'[w].thunk
            /\ (kind = "throttle" /\ sequence = "gap") =>
                 windows'[w].timeoutId = now + windows'[w].delay
            /\ (windows'[w].timedOut) => windows'[w].closes > 0]_vars

\* a 'gap' throttle window whose thunk failed: the timer armed at the
\* failure has fired and the window is disposed
C28_Witness ==
  /\ kind = "throttle" /\ sequence = "gap"
  /\ Len(windows) = 1
  /\ windows[1].thunk = Settled("rejected", 1)
  /\ windows[1].deferred = Settled("rejected", 1)
  /\ windows[1].timedOut /\ Disposed(1) /\ windowMap[windows[1].key] = 0

\* C29: the shared result of a window is write-once: it is empty until the
\* thunk has settled, then it is resolved(value) or rejected(error) as the
\* thunk ended, and no step changes it afterwards; every joiner observes
\* that one outcome.
C29_ResultWriteOnce ==
  /\ [](\A w \in Windows :
          /\ windows[w].deferred.state \in {"pending"} \cup Outcomes
          /\ (windows[w].deferred.state = "pending") <=> ~windows[w].settled
          /\ windows[w].settled => windows[w].deferred = windows[w].thunk
          /\ \A c \in Joiners(w) : Observed(c) = windows[w].deferred)
  /\ [][\A w \in Windows :
          windows[w].deferred.state # "pending" =>
            windows'[w].deferred = windows[w].deferred]_vars

\* a window with a resolved result that a later call joined, and a window
\* with a rejected result
C29_Witness ==
  /\ Len(windows) = 2
  /\ windows[1].deferred = Settled("resolved", 1)
  /\ windows[2].deferred = Settled("rejected", 3)
  /\ CallWindows = <<1, 1, 2>>
  /\ windows[1].invokedAt < calls[2].time
  /\ kind = "throttle" /\ sequence = "gap"

\* C30: a window is disposed only when it has timed out and, unless the
\* sequence is 'concurrent', its execution has settled: no window is disposed
\* before one of its timers has fired, and a 'serial' or 'gap' window is not
\* disposed while its thunk is running.
C30_DisposedOnlyWhenPermitted ==
  \A w \in Windows :
    /\ Disposed(w) =>
         /\ windows[w].timedOut
         /\ sequence = "concurrent" \/ windows[w].settled
    /\ (Disposed(w) /\ sequence \in {"serial", "gap"}) =>
         /\ windows[w].running = NoFunc
         /\ windows[w].fired
    /\ ~windows[w].timedOut => windows[w].closes = 0

\* a 'serial' window that has timed out but is not disposed, because its
\* thunk is still running, next to an earlier window that was disposed
C30_Witness ==
  /\ sequence = "serial"
  /\ Len(windows) = 2
  /\ Disposed(1) /\ windows[1].timedOut /\ windows[1].settled
  /\ windows[2].timedOut /\ windows[2].running # NoFunc /\ ~Disposed(2)

\* the host timers of window w are exactly the one #timeoutId names, if any
OneTimer(w) ==
  windows[w].timers =
    IF windows[w].timeoutId = NoTimer THEN {} ELSE {windows[w].timeoutId}

\* C31: a timing window has at most one pending timer, the one armed last:
\* arming clears the timer armed before. The timer that fires is the current
\* one, no earlier than the time it was armed for; in a debounce window that
\* is the timer of the last call that joined, so a superseded timer never
\* fires, invokes or closes; after the callback the window has no timer.
C31_SingleTimer ==
  /\ [](\A w \in Windows : OneTimer(w))
  /\ [][\A w \in Windows : \A b \in Behaviours :
          Timeout(w, b) =>
            /\ windows[w].timeoutId # NoTimer
            /\ windows[w].timeoutId <= now
            /\ kind = "debounce" =>
                 windows[w].timeoutId
                   = calls[LastJoiner(w)].time + windows[w].delay
            /\ windows'[w].timers = {}]_vars

\* a debounce window re-armed by a second call at a later time, whose timer
\* has fired once, invoked and closed the window
C31_Witness ==
  /\ kind = "debounce"
  /\ Len(calls) >= 2 /\ Len(windows) >= 1
  /\ calls[1].win = 1 /\ calls[2].win = 1
  /\ calls[1].time < calls[2].time
  /\ calls[2].time < calls[1].time + windows[1].delay
  /\ windows[1].timedOut
  /\ windows[1].invocations = 1
  /\ windows[1].closes = 1

\* the factory is throttle(delay, {sequence: 'gap'})
GapMode == kind = "throttle" /\ sequence = "gap"

\* the step arms a timer of window w
ArmsIn(w) == windows'[w].arms > windows[w].arms

\* the step runs close() of window w
ClosesIn(w) == windows'[w].closes > windows[w].closes

\* C32: throttle, sequence 'gap': the timer is not started when the window
\* is created but when its thunk settles: a window whose thunk has not
\* settled has no timer and has not timed out, a settled window that has not
\* timed out has its timer pending, a timer is armed only by the step in
\* which the thunk settles, and the window is closed only by that timer
\* firing, after settlement.
C32_GapTimerAfterSettle ==
  /\ [](GapMode =>
          \A w \in Windows :
            /\ ~windows[w].settled =>
                 windows[w].timers = {} /\ ~windows[w].timedOut
            /\ windows[w].running # NoFunc => windows[w].timers = {}
            /\ (windows[w].settled /\ ~windows[w].timedOut) =>
                 windows[w].timers # {})
  /\ [][GapMode =>
          \A w \in Windows :
            /\ ArmsIn(w) => SettlesIn(w)
            /\ ClosesIn(w) =>
                 /\ windows[w].settled
                 /\ windows[w].timers = {windows[w].timeoutId}
                 /\ windows[w].timeoutId <= now
                 /\ windows'[w].timedOut
                 /\ windows[w].closes = 0]_vars

\* a gap window with delay 2 that settled, timed out and was closed, and a
\* second one whose thunk is running with no timer armed
C32_Witness ==
  /\ GapMode
  /\ Len(windows) = 2
  /\ windows[1].delay = 2
  /\ windows[1].settled /\ windows[1].timedOut /\ windows[1].closes = 1
  /\ windows[2].running # NoFunc /\ windows[2].timers = {}

\* C33: routing is get-or-create without double creation: for one routing
\* key at most one window that has not been disposed exists at any time,
\* and it is the one the routing table holds.
C33_OneLiveWindowPerKey ==
  \A w1, w2 \in Windows :
    (w1 # w2 /\ windows[w1].key = windows[w2].key)
      => (Disposed(w1) \/ Disposed(w2))

\* C34: the dispose callback of a window removes only that window from the
\* routing table: a window that has not been disposed itself is still
\* registered under its key, whatever older windows of that key do later.
C34_OnlyOwnDisposeUnregisters ==
  \A w \in Windows :
    ~Disposed(w) => windowMap[windows[w].key] = w

\* the time the timer armed last for window w is due, for the windows whose
\* timer is armed by calls: a debounce window is re-armed by every joiner, a
\* throttle window that is not 'gap' is armed once, by the call creating it
LastArmedFor(w) ==
  IF kind = "debounce"
    THEN calls[LastJoiner(w)].time + windows[w].delay
    ELSE calls[FirstJoiner(w)].time + windows[w].delay

\* C35: a timing window is never disposed while it has a pending timer: a
\* window that has been disposed is past the time its most recently armed
\* timer was due, so a debounce window a call has re-armed stays open at
\* least until the re-armed timer fires.
C35_NotDisposedBeforeLastTimer ==
  ~GapMode =>
    \A w \in Windows :
      (Joiners(w) # {} /\ Disposed(w)) => now >= LastArmedFor(w)

\* the tail next.finally(() => {}) derived from unit u has a rejection
\* handler: a later enqueue chained pending.catch(() => {}) on it
TailHandled(u) == \E v \in Units : units[v].prev = u

\* C36: a serial queue leaves no unhandled rejected promise behind: when a
\* unit has failed, the tail `pending` derived from it, which rejects with
\* it, has a rejection handler attached.
C36_NoUnhandledRejection ==
  \A u \in Units :
    pendingOutcome(u).state = "rejected" => TailHandled(u)

\* window w has been disposed and the routing table does not hold it
Gone(w) == Disposed(w) /\ windowMap[windows[w].key] # w

\* window w has a timer that is due after the clock's last instant
BeyondHorizon(w) == \E t \in windows[w].timers : t > MaxTime

\* every window made so far is gone, or waits for a timer beyond the horizon
AllGone == \A w \in Windows : Gone(w) \/ BeyondHorizon(w)

\* C37: every timing window is eventually disposed and removed from the
\* routing table, if its timers fire, calls stop and its thunk settles; with
\* sequence 'concurrent' also if the thunk never settles. A 'serial' or 'gap'
\* window whose thunk has not settled is not disposed.
C37_EventuallyDisposed ==
  /\ []<>AllGone
  /\ [](sequence # "concurrent" =>
          \A w \in Windows : ~windows[w].settled => ~Disposed(w))

\* sequence 'concurrent': a window that is gone while its thunk is still
\* running, and a second window for the same key
C37_Witness ==
  /\ sequence = "concurrent"
  /\ Len(windows) = 2
  /\ Gone(1) /\ windows[1].running # NoFunc /\ windows[1].closes = 1
  /\ windowMap[windows[2].key] = 2

\* the step is the call that constructs window w
CreatedIn(w) == Len(windows) = w - 1 /\ Len(windows') = w

\* C38 as stated: the dispose callback never runs in the synchronous turn
\* that creates the window, because the close check is reached only from a
\* timer callback or after an await: the creating turn does not get to the
\* finally block of run(); a registered window is never a disposed one.
C38_CloseCheckOutsideCreatingTurn ==
  /\ [](\A w \in Windows : windowMap[windows[w].key] = w => ~Disposed(w))
  /\ [][\A w \in 1 .. MaxCalls :
          CreatedIn(w) =>
            /\ windows'[w].closes = 0
            /\ windowMap'[windows'[w].key] = w
            /\ ~windows'[w].settled]_vars

\* C38, amended: the dispose callback never runs in the synchronous turn
\* that creates the window: the turn leaves the window registered, not
\* timed out and not disposed (a thunk that throws synchronously gets to the
\* close check within that turn, which finds timedOut false); close() runs
\* only for a window that has timed out; a registered window is never a
\* disposed one.
C38_NoDisposeInCreatingTurn ==
  /\ [](\A w \in Windows : windowMap[windows[w].key] = w => ~Disposed(w))
  /\ [][/\ \A w \in 1 .. MaxCalls :
             CreatedIn(w) =>
               /\ windows'[w].closes = 0
               /\ windowMap'[windows'[w].key] = w
               /\ ~windows'[w].timedOut
        /\ \A w \in Windows : ClosesIn(w) => windows'[w].timedOut]_vars

\* delay 0 and a thunk that throws synchronously: the window has settled
\* in the turn that created it, its timer is due, it is registered and not
\* disposed
C38_Witness ==
  /\ Len(windows) = 1 /\ Len(calls) = 1
  /\ windows[1].delay = 0
  /\ windows[1].settled /\ windows[1].thunk.state = "rejected"
  /\ windows[1].timers = {now} /\ ~windows[1].timedOut
  /\ windowMap[windows[1].key] = 1 /\ ~Disposed(1)

\* every unit enqueued before u on u's queue has settled
Ready(u) == \A v \in Before(u) : units[v].status \in Outcomes

\* every unit whose turn has come has started, and the caller of every
\* started unit whose fn does not hang has its promise settled
QueuesDrained ==
  \A u \in Units :
    /\ Ready(u) => units[u].ran
    /\ (units[u].ran /\ ~MayHang(u)) =>
         Observed(units[u].call).state # "pending"

\* C39: every unit enqueued on a serial queue eventually starts, provided
\* the units enqueued before it on its queue settle, and its caller's
\* promise settles once its own fn does; a unit that has not settled blocks
\* the later units of its queue: they have not started and their callers'
\* promises are pending.
C39_QueueProgress ==
  /\ []<>QueuesDrained
  /\ [](\A u \in Units :
          ~Ready(u) => /\ ~units[u].ran
                       /\ Observed(units[u].call).state = "pending")

\* f and g share group A: a unit of f has failed, a unit of g behind it has
\* started and hangs, and a second unit of f waits behind that one
C39_Witness ==
  /\ kind = "serialize"
  /\ sopts = [wr \in Wrappers |-> [perInstance |-> FALSE, group |-> "A"]]
  /\ Len(units) = 3
  /\ <<calls[1].wrapper, calls[2].wrapper, calls[3].wrapper>> = <<"f", "g", "f">>
  /\ units[1].status = "rejected"
  /\ units[2].status = "running"
  /\ units[3].status = "waiting" /\ ~Ready(3)

\* window w has settled and its timer, not fired so far, is pending
SettledBeforeTimeout(w) ==
  /\ windows[w].settled /\ ~windows[w].timedOut
  /\ windows[w].timers # {}

\* C40: debounce, leading edge: a call that arrives when the thunk of the
\* window of its key has settled and the window's timer has not fired joins
\* that window: it re-arms the timer, gets the settled result and causes no
\* invocation; a call creates a new window, with a new invocation, only when
\* every earlier window of its key has been disposed.
C40_LeadingJoinAfterSettle ==
  [][(kind = "debounce" /\ edge = "leading") =>
       \A w \in Windows :
         CallFor(w) =>
           /\ SettledBeforeTimeout(w) =>
                /\ calls'[Len(calls')].win = w
                /\ Len(windows') = Len(windows)
                /\ windows'[w].timers = {now + windows[w].delay}
                /\ windows'[w].invocations = windows[w].invocations
                /\ windows'[w].deferred = windows[w].deferred
           /\ Len(windows') > Len(windows) => Disposed(w)]_vars

=============================================================================
